---------------------------- MODULE Spec2Model ----------------------------
(***************************************************************************)
(* Session orchestration of the command-line assistant client:             *)
(*   server/src/lib/token.ts           (credential file, isTokenExpired)    *)
(*   server/src/cli/chat/chat-with-tool.ts      (startToolChat, chatLoop)   *)
(*   server/src/cli/chat/chat-with-ai-agent.ts  (startAgentChat, agentLoop) *)
(*   server/src/cli/ai/openai-service.ts        (AIService.sendMessage)     *)
(* Strings are sequences of one-character strings, so that trim(),         *)
(* toLowerCase(), length and slice() are computed as JavaScript does.      *)
(***************************************************************************)
EXTENDS Integers, Sequences, FiniteSets, TLC

(* ------------------------------ bounds --------------------------------- *)
\* number of process invocations (sessions) of one behaviour
MaxSessions == 2
\* turns (inputs accepted for processing) of one behaviour, over all sessions
MaxTurns == 2
\* latest clock reading (ms) the credential checks are drawn from
MaxNow == 2

(* ------------------------------ strings -------------------------------- *)
Rep(c, n) == [i \in 1..n |-> c]

S_exit == <<"e", "x", "i", "t">>
S_ExIt == <<"E", "x", "I", "t">>
S_hi == <<"h", "i">>
S_blank == <<" ", " ">>
S_build == <<"b", "u", "i", "l", "d", " ", "a", " ", "t", "o", "d", "o", " ", "a", "p", "p">>
S_long == Rep("a", 51)
S_dots == <<".", ".", ".">>
S_Hel == <<"H", "e", "l">>
S_lo == <<"l", "o">>
S_ErrorPrefix == <<"E", "r", "r", "o", "r", ":", " ">>

\* error.message values: those the session code sets, and those of failing
\* collaborators (database, model API, generator, terminal)
E_NotAuthenticated ==
    <<"N", "o", "t", " ", "a", "u", "t", "h", "e", "n", "t", "i", "c", "a", "t", "e", "d", ".", " ", "P", "l", "e", "a", "s", "e", " ", "l", "o", "g", "i", "n", " ", "f", "i", "r", "s", "t", ".">>
E_InvalidToken ==
    <<"I", "n", "v", "a", "l", "i", "d", " ", "t", "o", "k", "e", "n", ".", " ", "P", "l", "e", "a", "s", "e", " ", "l", "o", "g", "i", "n", " ", "a", "g", "a", "i", "n", ".">>
E_Db == <<"d", "b", " ", "d", "o", "w", "n">>
E_Api == <<"a", "p", "i", " ", "d", "o", "w", "n">>
E_NoResult == <<"G", "e", "n", "e", "r", "a", "t", "i", "o", "n", " ", "r", "e", "t", "u", "r", "n", "e", "d", " ", "n", "o", " ", "r", "e", "s", "u", "l", "t">>
E_Generate == <<"g", "e", "n", " ", "f", "a", "i", "l", "e", "d">>
E_Prompt == <<"t", "t", "y", " ", "c", "l", "o", "s", "e", "d">>

\* String.prototype.toLowerCase, on the letters the inputs use
LowerChar(c) ==
    CASE c = "E" -> "e"
      [] c = "X" -> "x"
      [] c = "I" -> "i"
      [] c = "T" -> "t"
      [] c = "H" -> "h"
      [] OTHER -> c

\* a comparison that does not fold case
toLowerCase_CaseSensitive(s) == s

toLowerCase(s) == [i \in 1..Len(s) |-> LowerChar(s[i])]

IsSpace(c) == c \in {" ", "\t", "\n"}

RECURSIVE trimStart(_)
trimStart(s) ==
    IF s # <<>> /\ IsSpace(Head(s)) THEN trimStart(Tail(s)) ELSE s

RECURSIVE trimEnd(_)
trimEnd(s) ==
    IF s # <<>> /\ IsSpace(s[Len(s)]) THEN trimEnd(SubSeq(s, 1, Len(s) - 1)) ELSE s

\* String.prototype.trim
trim(s) == trimEnd(trimStart(s))

\* String.prototype.slice(0, n)
slice0(s, n) == SubSeq(s, 1, IF Len(s) < n THEN Len(s) ELSE n)

(* --------------------------- credential file --------------------------- *)
\* clock reading of the session runs
Now0 == 0

FiveMinutes == 5 * 60 * 1000

NoDate == [kind |-> "null", ms |-> 0]
InvalidDate == [kind |-> "invalid", ms |-> 0]
\* Date.prototype.toISOString: millisecond precision
toISOString(ms) == [kind |-> "iso", ms |-> ms]

MissingFile == [kind |-> "missing", access_token |-> "", expires_at |-> NoDate]
UnparseableFile == [kind |-> "unparseable", access_token |-> "", expires_at |-> NoDate]
TokenData(access, exp) == [kind |-> "json", access_token |-> access, expires_at |-> exp]

\* getStoredToken: null when readFile or JSON.parse throws
NullToken == [isNull |-> TRUE, access_token |-> "", expires_at |-> NoDate]
getStoredToken(file) ==
    IF file.kind = "json"
    THEN [isNull |-> FALSE, access_token |-> file.access_token, expires_at |-> file.expires_at]
    ELSE NullToken

\* new Date(token.expires_at).getTime(): NaN for a string that is no date
NaN == [nan |-> TRUE, ms |-> 0]
Num(n) == [nan |-> FALSE, ms |-> n]
getTime(d) == IF d.kind = "iso" THEN Num(d.ms) ELSE NaN

\* a - b < c on JavaScript numbers: every comparison with NaN is false
MinusLessThan(a, b, c) == ~a.nan /\ a.ms - b < c

\* the five-minute margin counted as expired at the boundary too
isTokenExpired_Inclusive(file, nowMs) ==
    LET token == getStoredToken(file) IN
    IF token.isNull \/ token.expires_at.kind = "null"
    THEN TRUE
    ELSE LET t == getTime(token.expires_at) IN ~t.nan /\ t.ms - nowMs <= FiveMinutes

isTokenExpired(file, nowMs) ==
    LET token == getStoredToken(file) IN
    IF token.isNull \/ token.expires_at.kind = "null"
    THEN TRUE
    ELSE MinusLessThan(getTime(token.expires_at), nowMs, FiveMinutes)

(* ------------------------- session backend ----------------------------- *)
\* prisma.user.findFirst({where: {sessions: {some: {token}}}}): "" is no user
findFirstUser(access_token) == IF access_token = "tokA" THEN "u1" ELSE ""

\* credential files a session may find at its start
SessionTokenFiles ==
    { MissingFile, UnparseableFile,
      TokenData("", toISOString(Now0 + 2 * FiveMinutes)),
      TokenData("tokX", toISOString(Now0 + 2 * FiveMinutes)),
      TokenData("tokA", toISOString(Now0 + 2 * FiveMinutes)),
      TokenData("tokA", toISOString(Now0 - 1000)) }

(* --------------------------- tool registry ----------------------------- *)
availableTools == {"google_search", "code_execution"}

\* the enabled set after enableTools(ids)
enableTools(ids) == ids \cap availableTools

\* the enabled set after resetTools()
resetTools == {}

(* ------------------------- conversation store -------------------------- *)
PlaceholderTitle == <<"N", "e", "w", " ", "C", "o", "n", "v", "e", "r", "s", "a", "t", "i", "o", "n">>

Message(id, role, content) == [id |-> id, role |-> role, content |-> content]

NewConversation(userId, convMode) ==
    [userId |-> userId, mode |-> convMode, title |-> PlaceholderTitle, messages |-> <<>>]

Resolves(convs, userId, conversationId) ==
    /\ conversationId \in 1..Len(convs)
    /\ convs[conversationId].userId = userId

\* getOrCreateConversation: the store after the call, and the id returned
getOrCreateConversation(convs, userId, conversationId, convMode) ==
    IF Resolves(convs, userId, conversationId)
    THEN [convs |-> convs, id |-> conversationId]
    ELSE [convs |-> Append(convs, NewConversation(userId, convMode)), id |-> Len(convs) + 1]

addMessage(convs, conversationId, role, content) ==
    [convs EXCEPT ![conversationId].messages =
        Append(@, Message(Len(@) + 1, role, content))]

updateTitle(convs, conversationId, title) ==
    [convs EXCEPT ![conversationId].title = title]

getMessages(convs, conversationId) == convs[conversationId].messages

formatMessages(messages) ==
    [i \in 1..Len(messages) |-> [role |-> messages[i].role, content |-> messages[i].content]]

(* ---------------------------- model gateway ---------------------------- *)
MaxSteps == 5

NoTools == [defined |-> FALSE, names |-> {}]
Tools(names) == [defined |-> TRUE, names |-> names]

\* the configuration with the step limit one too high
streamConfig_OneMoreStep(messages, tools) ==
    IF tools.defined /\ Cardinality(tools.names) > 0
    THEN [messages |-> messages, hasTools |-> TRUE, tools |-> tools.names,
          maxSteps |-> MaxSteps + 1]
    ELSE [messages |-> messages, hasTools |-> FALSE, tools |-> {}, maxSteps |-> 0]

\* the configuration sendMessage hands to streamText
streamConfig(messages, tools) ==
    IF tools.defined /\ Cardinality(tools.names) > 0
    THEN [messages |-> messages, hasTools |-> TRUE, tools |-> tools.names, maxSteps |-> MaxSteps]
    ELSE [messages |-> messages, hasTools |-> FALSE, tools |-> {}, maxSteps |-> 0]

RECURSIVE Concat(_)
Concat(chunks) == IF chunks = <<>> THEN <<>> ELSE Head(chunks) \o Concat(Tail(chunks))

\* text streams the model may produce
TextStreams == { <<S_Hel, S_lo>> }

\* sendMessage on a stream that completes: what it returns
sendMessage(messages, tools, textStream) ==
    [content |-> Concat(textStream), config |-> streamConfig(messages, tools)]

(* ------------------------ application generation ----------------------- *)
GenResult == [success |-> TRUE, folderName |-> <<"t", "o", "d", "o", "-", "a", "p", "p">>, files |-> 2,
              appDir |-> <<"/", "w", "/", "t", "o", "d", "o", "-", "a", "p", "p">>, commands |-> << <<"n", "p", "m", " ", "i", "n", "s", "t", "a", "l", "l">> >>]

Digit(n) == <<"0", "1", "2", "3", "4", "5", "6", "7", "8", "9">>[n + 1]

RECURSIVE Join(_, _)
Join(lines, sep) ==
    IF lines = <<>> THEN <<>>
    ELSE IF Len(lines) = 1 THEN Head(lines)
    ELSE Head(lines) \o sep \o Join(Tail(lines), sep)

\* the assistant message of a successful generation
responseMessage(result) ==
    <<"G", "e", "n", "e", "r", "a", "t", "e", "d", " ", "a", "p", "p", "l", "i", "c", "a", "t", "i", "o", "n", ":", " ">> \o result.folderName \o <<"\n">> \o
    <<"F", "i", "l", "e", "s", " ", "c", "r", "e", "a", "t", "e", "d", ":", " ">> \o <<Digit(result.files)>> \o <<"\n">> \o
    <<"L", "o", "c", "a", "t", "i", "o", "n", ":", " ">> \o result.appDir \o <<"\n", "\n">> \o
    <<"S", "e", "t", "u", "p", " ", "c", "o", "m", "m", "a", "n", "d", "s", ":", "\n">> \o Join(result.commands, <<"\n">>)

(* ------------------------------ prompts -------------------------------- *)
\* what the user may type at chatLoop's text prompt
chatInputs == { <<>>, S_blank, S_exit, S_ExIt, S_hi, S_long }

\* what the user may type at agentLoop's text prompt
agentInputs == { <<>>, S_blank, S_exit, S_build }

\* validate() testing the value as typed, untrimmed
chatValidate_NoTrim(value) ==
    IF value = <<>> THEN "Message cannot be empty" ELSE ""

\* validate() of chatLoop's text prompt: "" accepts
chatValidate(value) ==
    IF value = <<>> \/ Len(trim(value)) = 0 THEN "Message cannot be empty" ELSE ""

\* validate() of agentLoop's text prompt
agentValidate(value) ==
    IF value = <<>> \/ Len(trim(value)) = 0 THEN "Description cannot be empty"
    ELSE IF Len(trim(value)) < 10 THEN "Please provide more details (at least 10 characters)"
    ELSE ""

(* ------------------------------- state --------------------------------- *)
VARIABLES
    tokenFile,        \* the credential file (TOKEN_FILE)
    now,              \* Date.now()
    lastCheck,        \* the last isTokenExpired()/requireAuth() call and its result
    pc,               \* where the running session function is suspended
    mode,             \* "tool": startToolChat runs; "agent": startAgentChat runs
    conversationId,   \* the argument of startToolChat/startAgentChat, 0 for null
    user,             \* const user of the session function, "" before it is set
    enabledTools,     \* the tool registry's enabled set (process-wide)
    conversation,     \* conversation.id, 0 before initConversation returned
    created,          \* conversations this process has created
    userInput,        \* the text prompt's value at the last Enter
    validationError,  \* what validate() returned for it, "" when accepted
    messagesLength,   \* messages.length of chatLoop (line 372), -1 before it is read
    aiResponse,       \* aiResponse / responseMessage of the turn
    errorMessage,     \* error.message of the exception last caught
    shown,            \* the last thing printed for the user
    outcome,          \* "running", "returned", "exit0", "exit1"
    conversations,    \* the conversation table, indexed by id
    titleUpdates,     \* per conversation, the number of updateTitle calls made
    lastCall,         \* the last streamText configuration sendMessage built
    nSessions,        \* sessions started so far
    nTurns,           \* inputs accepted for processing so far
    inFlight,         \* sendMessage calls of the process that have not settled
    gatewayPc,        \* where a sendMessage call stands: "idle", "textStream", ...
    args,             \* its arguments, and what the hosted model will do in it
    textStreamRest,   \* result.textStream: the fragments not yet delivered
    steps,            \* fullResult.steps: the tool-use steps executed so far
    parts,            \* everything the model produced, in arrival order
    callbacks,        \* the onChunk/onToolCall invocations, in the order made
    fullResponse,     \* let fullResponse of sendMessage
    callerResponse,   \* what the caller's onChunk accumulated
    returned,         \* the object sendMessage returned
    displayPc,        \* where the resumed session's start stands: "idle", "forEach", ...
    previousMessages, \* conversation.messages as initConversation loaded them
    forEachIndex,     \* the element messages.forEach invokes its callback on next
    microtasks,       \* the continuations queued by settled awaits, oldest first
    rendered          \* the boxes and prompts printed, in the order printed

vars == <<tokenFile, now, lastCheck, pc, mode, conversationId, user, enabledTools,
          conversation, created, userInput, validationError, messagesLength, aiResponse,
          errorMessage, shown, outcome, conversations, titleUpdates, lastCall,
          nSessions, nTurns, inFlight, gatewayPc, args, textStreamRest, steps, parts,
          callbacks, fullResponse, callerResponse, returned, displayPc, previousMessages,
          forEachIndex, microtasks, rendered>>

displayVars == <<displayPc, previousMessages, forEachIndex, microtasks, rendered>>

gatewayVars == <<gatewayPc, args, textStreamRest, steps, parts, callbacks, fullResponse,
                 callerResponse, returned>>

tokenVars == <<tokenFile, now, lastCheck>>
storeVars == <<conversations, titleUpdates>>
convVars == <<conversation, created>>
turnVars == <<userInput, validationError, messagesLength, aiResponse>>

NoCheck == [done |-> FALSE, op |-> "", file |-> MissingFile, at |-> 0,
            result |-> FALSE, exit |-> FALSE]
NoCall == [made |-> FALSE, config |-> streamConfig(<<>>, NoTools)]

\* no sendMessage call observed: arguments, and the object returned
NoArgs == [via |-> "", messages |-> <<>>, onChunk |-> FALSE, tools |-> NoTools,
           onToolCall |-> FALSE, stream |-> <<>>, requested |-> 0, stepsIsArray |-> FALSE]
NoReturn == [content |-> <<>>, toolCalls |-> <<>>]

GatewayIdle ==
    /\ gatewayPc = "idle"
    /\ args = NoArgs
    /\ textStreamRest = <<>>
    /\ steps = <<>>
    /\ parts = <<>>
    /\ callbacks = <<>>
    /\ fullResponse = <<>>
    /\ callerResponse = <<>>
    /\ returned = NoReturn

\* no conversation loaded for display, nothing printed
DisplayIdle ==
    /\ displayPc = "idle"
    /\ previousMessages = <<>>
    /\ forEachIndex = 0
    /\ microtasks = <<>>
    /\ rendered = <<>>

Init ==
    /\ tokenFile \in SessionTokenFiles
    /\ now = Now0
    /\ lastCheck = NoCheck
    /\ pc = "idle"
    /\ mode = ""
    /\ conversationId = 0
    /\ user = ""
    /\ enabledTools = {}
    /\ conversation = 0
    /\ created = 0
    /\ userInput = <<>>
    /\ validationError = ""
    /\ messagesLength = -1
    /\ aiResponse = <<>>
    /\ errorMessage = <<>>
    /\ shown = ""
    /\ outcome = ""
    /\ conversations = <<>>
    /\ titleUpdates = <<>>
    /\ lastCall = NoCall
    /\ nSessions = 0
    /\ nTurns = 0
    /\ inFlight = 0
    /\ GatewayIdle
    /\ DisplayIdle

(* ------------------------- top-level handlers -------------------------- *)
\* a new process: module state as loaded, locals unset; the credential file is
\* the one a login left (Init), or has been removed since (clearStoredToken)
NewProcess(sessionMode, id, file) ==
    /\ pc \in {"idle", "terminated", "select"}
    /\ nSessions < MaxSessions
    /\ nTurns < MaxTurns
    /\ nSessions' = nSessions + 1
    /\ file \in {tokenFile, MissingFile}
    /\ id \in 0..(Len(conversations) + 1)
    /\ tokenFile' = file
    /\ mode' = sessionMode
    /\ conversationId' = id
    /\ pc' = "getUserFromToken"
    /\ user' = ""
    /\ enabledTools' = {}
    /\ conversation' = 0
    /\ created' = 0
    /\ userInput' = <<>>
    /\ validationError' = ""
    /\ messagesLength' = -1
    /\ aiResponse' = <<>>
    /\ errorMessage' = <<>>
    /\ shown' = "intro"
    /\ outcome' = "running"
    /\ lastCall' = NoCall
    /\ inFlight' = 0
    /\ UNCHANGED <<now, lastCheck, conversations, titleUpdates, nTurns, gatewayVars, displayVars>>

\* startToolChat(conversationId) up to its first await
StartToolChat ==
    \E id \in 0..MaxSessions, file \in SessionTokenFiles : NewProcess("tool", id, file)

\* startAgentChat(conversationId) up to its first await
StartAgentChat ==
    \E id \in 0..MaxSessions, file \in SessionTokenFiles : NewProcess("agent", id, file)

\* catch (error) of startToolChat, without its resetTools()
startToolChatCatch_NoReset(message) ==
    /\ errorMessage' = message
    /\ shown' = "errorBox"
    /\ enabledTools' = enabledTools
    /\ outcome' = "exit1"
    /\ pc' = "terminated"

\* catch (error) of startToolChat: error box, resetTools(), process.exit(1)
startToolChatCatch(message) ==
    /\ errorMessage' = message
    /\ shown' = "errorBox"
    /\ enabledTools' = resetTools
    /\ outcome' = "exit1"
    /\ pc' = "terminated"

\* catch (error) of startAgentChat: error box, process.exit(1)
startAgentChatCatch(message) ==
    /\ errorMessage' = message
    /\ shown' = "errorBox"
    /\ enabledTools' = enabledTools
    /\ outcome' = "exit1"
    /\ pc' = "terminated"

\* the locals of the loop iteration, unset
TurnVarsUnset ==
    /\ userInput' = <<>>
    /\ validationError' = ""
    /\ messagesLength' = -1
    /\ aiResponse' = <<>>

\* an exception that reaches the session function's try block; `call` is the
\* gateway call the process made last. The process ends in the handler, and
\* the loop's locals with it.
ThrowAfter(message, call) ==
    /\ IF mode = "tool" THEN startToolChatCatch(message) ELSE startAgentChatCatch(message)
    /\ TurnVarsUnset
    /\ lastCall' = call
    /\ inFlight' = 0
    /\ UNCHANGED <<tokenVars, gatewayVars, displayVars, mode, conversationId, user, convVars, storeVars,
                   nSessions, nTurns>>

Throw(message) == ThrowAfter(message, NoCall)

\* the statements of startToolChat after chatLoop returned: resetTools(), outro
ToolChatReturn ==
    /\ enabledTools' = resetTools
    /\ shown' = "outro"
    /\ outcome' = "returned"
    /\ pc' = "terminated"

\* the statement of startAgentChat after agentLoop returned: outro
AgentChatReturn ==
    /\ enabledTools' = enabledTools
    /\ shown' = "outro"
    /\ outcome' = "returned"
    /\ pc' = "terminated"

\* the cancellation message printed, without the process.exit(0) after it
Exit0_NoExit(message) ==
    /\ shown' = message
    /\ UNCHANGED <<tokenVars, gatewayVars, displayVars, inFlight, pc, mode, conversationId, user,
                   enabledTools, convVars, turnVars, errorMessage, outcome, storeVars,
                   lastCall, nSessions, nTurns>>

\* process.exit(0) after a cancellation message: the process ends, and the
\* loop's locals with it; nothing else is touched
Exit0(message) ==
    /\ shown' = message
    /\ outcome' = "exit0"
    /\ pc' = "terminated"
    /\ enabledTools' = enabledTools
    /\ TurnVarsUnset
    /\ lastCall' = NoCall
    /\ inFlight' = 0
    /\ UNCHANGED <<tokenVars, gatewayVars, displayVars, mode, conversationId, user, convVars, errorMessage,
                   storeVars, nSessions, nTurns>>

(* --------------------------- authentication ---------------------------- *)
getUserFromToken_NoUserCheck ==
    /\ pc = "getUserFromToken"
    /\ LET token == getStoredToken(tokenFile) IN
       IF token.isNull \/ token.access_token = ""
       THEN Throw(E_NotAuthenticated)
       ELSE /\ user' = "u1"
            /\ shown' = "welcome"
            /\ pc' = IF mode = "tool" THEN "selectTools" ELSE "confirm"
            /\ UNCHANGED <<tokenVars, gatewayVars, displayVars, inFlight, mode, conversationId, enabledTools, convVars,
                           turnVars, errorMessage, outcome, storeVars, lastCall, nSessions, nTurns>>

\* getUserFromToken (both session files hold the same function)
getUserFromToken ==
    /\ pc = "getUserFromToken"
    /\ LET token == getStoredToken(tokenFile) IN
       IF token.isNull \/ token.access_token = ""
       THEN Throw(E_NotAuthenticated)
       ELSE \/ Throw(E_Db)
            \/ LET found == findFirstUser(token.access_token) IN
               IF found = ""
               THEN Throw(E_InvalidToken)
               ELSE /\ user' = found
                    /\ shown' = "welcome"
                    /\ pc' = IF mode = "tool" THEN "selectTools" ELSE "confirm"
                    /\ UNCHANGED <<tokenVars, gatewayVars, displayVars, inFlight, mode, conversationId, enabledTools,
                                   convVars, turnVars, errorMessage, outcome,
                                   storeVars, lastCall, nSessions, nTurns>>

(* --------------------------- tool-mode session ------------------------- *)
\* selectTools enabling the whole catalog whatever was picked
selectTools_EnableAll ==
    /\ pc = "selectTools"
    /\ \E selectedTool \in SUBSET availableTools :
          /\ enabledTools' = enableTools(availableTools)
          /\ shown' = IF selectedTool = {} THEN "No tools selected" ELSE "Enabled tools"
          /\ pc' = "initConversation"
          /\ UNCHANGED <<tokenVars, gatewayVars, displayVars, inFlight, mode, conversationId, user,
                         convVars, turnVars, errorMessage, outcome, storeVars, lastCall,
                         nSessions, nTurns>>

\* selectTools: the multiselect prompt, then enableTools(selectedTool)
selectTools ==
    /\ pc = "selectTools"
    /\ \/ /\ Exit0("Tool selection cancelled. No tools will be enabled.")
       \/ \E selectedTool \in SUBSET availableTools :
             /\ enabledTools' = enableTools(selectedTool)
             /\ shown' = IF selectedTool = {} THEN "No tools selected" ELSE "Enabled tools"
             /\ pc' = "initConversation"
             /\ UNCHANGED <<tokenVars, gatewayVars, displayVars, inFlight, mode, conversationId, user, convVars, turnVars,
                            errorMessage, outcome, storeVars, lastCall, nSessions, nTurns>>
       \/ Throw(E_Prompt)

\* initConversation(user.id, conversationId, "tool"), then chatLoop up to its prompt
initConversation ==
    /\ pc = "initConversation"
    /\ mode = "tool"
    /\ \/ LET got == getOrCreateConversation(conversations, user, conversationId, "tool") IN
          /\ conversations' = got.convs
          /\ titleUpdates' = IF Len(got.convs) > Len(conversations)
                             THEN Append(titleUpdates, 0) ELSE titleUpdates
          /\ conversation' = got.id
          /\ created' = created + (Len(got.convs) - Len(conversations))
          /\ shown' = "helpBox"
          /\ pc' = "text"
          /\ UNCHANGED <<tokenVars, gatewayVars, displayVars, inFlight, mode, conversationId, user, enabledTools, turnVars,
                         errorMessage, outcome, lastCall, nSessions, nTurns>>
       \/ Throw(E_Db)

\* chatLoop: the text prompt answered with Enter on `value`
chatLoopText(value) ==
    /\ pc = "text"
    /\ mode = "tool"
    /\ userInput' = value
    /\ validationError' = chatValidate(value)
    /\ IF chatValidate(value) # ""
       THEN \* the prompt shows the message and stays open
            /\ UNCHANGED <<tokenVars, gatewayVars, displayVars, inFlight, pc, mode, conversationId, user, enabledTools,
                           convVars, messagesLength, aiResponse, errorMessage, shown,
                           outcome, storeVars, lastCall, nSessions, nTurns>>
       ELSE IF toLowerCase(value) = S_exit
       THEN \* break; chatLoop returns to startToolChat
            /\ ToolChatReturn
            /\ UNCHANGED <<tokenVars, gatewayVars, displayVars, inFlight, mode, conversationId, user, convVars,
                           messagesLength, aiResponse, errorMessage, storeVars, lastCall,
                           nSessions, nTurns>>
       ELSE /\ nTurns < MaxTurns
            /\ nTurns' = nTurns + 1
            /\ shown' = "userBox"
            /\ pc' = "saveUser"
            /\ UNCHANGED <<tokenVars, gatewayVars, displayVars, inFlight, mode, conversationId, user, enabledTools,
                           convVars, messagesLength, aiResponse, errorMessage, outcome,
                           storeVars, lastCall, nSessions>>

\* chatLoop: the text prompt cancelled (Ctrl+C): exit box, process.exit(0)
chatLoopCancel ==
    /\ pc = "text"
    /\ mode = "tool"
    /\ Exit0("Chat session ended. Goodbye!")

\* chatLoop line 371: saveMessage(conversation.id, "user", userInput)
chatLoopSaveUser ==
    /\ pc = "saveUser"
    /\ mode = "tool"
    /\ \/ /\ conversations' = addMessage(conversations, conversation, "user", userInput)
          /\ pc' = "getMessages"
          /\ UNCHANGED <<tokenVars, gatewayVars, displayVars, inFlight, mode, conversationId, user, enabledTools, convVars,
                         turnVars, errorMessage, shown, outcome, titleUpdates, lastCall,
                         nSessions, nTurns>>
       \/ Throw(E_Db)

\* chatLoop line 372: messages = getMessages(conversation.id)
chatLoopGetMessages ==
    /\ pc = "getMessages"
    /\ \/ /\ messagesLength' = Len(getMessages(conversations, conversation))
          /\ pc' = "getAiResponse"
          /\ UNCHANGED <<tokenVars, gatewayVars, displayVars, inFlight, mode, conversationId, user, enabledTools, convVars,
                         userInput, validationError, aiResponse, errorMessage, shown,
                         outcome, storeVars, lastCall, nSessions, nTurns>>
       \/ Throw(E_Db)

\* the tools argument of the sendMessage call of getAiResponse: none is given
getAiResponseTools == NoTools

\* the history read for the call, cut to its last message
getAiResponseMessages_LastOnly(convs, id) ==
    LET dbMessages == getMessages(convs, id) IN
    formatMessages(SubSeq(dbMessages, Len(dbMessages), Len(dbMessages)))

\* getAiResponse lines 262-263: dbMessages, then aiMessages
getAiResponseMessages(convs, id) == formatMessages(getMessages(convs, id))

\* the sendMessage call started and not awaited: the function goes on
getAiResponse_NoAwait ==
    /\ pc = "getAiResponse"
    /\ LET aiMessages == getAiResponseMessages(conversations, conversation) IN
       /\ lastCall' = [made |-> TRUE,
                       config |-> streamConfig(aiMessages, getAiResponseTools)]
       /\ inFlight' = inFlight + 1
       /\ pc' = "saveAssistant"
       /\ UNCHANGED <<tokenVars, gatewayVars, displayVars, mode, conversationId, user, enabledTools,
                      convVars, turnVars, errorMessage, shown, outcome, storeVars,
                      nSessions, nTurns>>

\* getAiResponse(conversation.id) up to its await: the history is read and
\* formatted, sendMessage is called and the function suspends on it
getAiResponse ==
    /\ pc = "getAiResponse"
    /\ \/ LET aiMessages == getAiResponseMessages(conversations, conversation) IN
          /\ lastCall' = [made |-> TRUE,
                          config |-> streamConfig(aiMessages, getAiResponseTools)]
          /\ inFlight' = inFlight + 1
          /\ pc' = "sendMessage"
          /\ UNCHANGED <<tokenVars, gatewayVars, displayVars, mode, conversationId, user,
                         enabledTools, convVars, turnVars, errorMessage, shown, outcome,
                         storeVars, nSessions, nTurns>>
       \/ \* getMessages fails before the call
          Throw(E_Db)

\* getAiResponse from its await on: the call settles; its content is returned
\* to chatLoop, or its error rethrown
getAiResponseSettled ==
    /\ pc = "sendMessage"
    /\ inFlight > 0
    /\ \/ \E textStream \in TextStreams :
             LET result == sendMessage(lastCall.config.messages, getAiResponseTools,
                                       textStream) IN
             /\ inFlight' = inFlight - 1
             /\ aiResponse' = result.content
             /\ shown' = "assistant"
             /\ pc' = "saveAssistant"
             /\ UNCHANGED <<tokenVars, gatewayVars, displayVars, mode, conversationId, user,
                            enabledTools, convVars, userInput, validationError,
                            messagesLength, errorMessage, outcome, storeVars, lastCall,
                            nSessions, nTurns>>
       \/ \* streamText or the stream fails: sendMessage and getAiResponse rethrow
          ThrowAfter(E_Api, lastCall)

\* chatLoop line 374: saveMessage(conversation.id, "assistant", aiResponse)
chatLoopSaveAssistant ==
    /\ pc = "saveAssistant"
    /\ mode = "tool"
    /\ \/ /\ conversations' = addMessage(conversations, conversation, "assistant", aiResponse)
          /\ pc' = "updateTitle"
          /\ UNCHANGED <<tokenVars, gatewayVars, displayVars, inFlight, mode, conversationId, user, enabledTools, convVars,
                         turnVars, errorMessage, shown, outcome, titleUpdates, lastCall,
                         nSessions, nTurns>>
       \/ Throw(E_Db)

\* the title updateConversationTitle derives from the input
titleOf(input) == slice0(input, 50) \o (IF Len(input) > 50 THEN S_dots ELSE <<>>)

\* the title set once the reply is stored too (two messages)
updateConversationTitle_AfterReply(messageCount) == messageCount = 2

\* the condition of updateConversationTitle
updateConversationTitle(messageCount) == messageCount = 1

\* chatLoop line 375: updateConversationTitle(...), then the next iteration's prompt
chatLoopUpdateTitle ==
    /\ pc = "updateTitle"
    /\ \/ /\ IF updateConversationTitle(messagesLength)
             THEN /\ conversations' = updateTitle(conversations, conversation, titleOf(userInput))
                  /\ titleUpdates' = [titleUpdates EXCEPT ![conversation] = @ + 1]
             ELSE UNCHANGED storeVars
          /\ pc' = "text"
          /\ userInput' = <<>>
          /\ validationError' = ""
          /\ messagesLength' = -1
          /\ aiResponse' = <<>>
          /\ shown' = "prompt"
          /\ UNCHANGED <<tokenVars, gatewayVars, displayVars, inFlight, mode, conversationId, user, enabledTools, convVars,
                         errorMessage, outcome, lastCall, nSessions, nTurns>>
       \/ /\ updateConversationTitle(messagesLength)
          /\ Throw(E_Db)

(* -------------------------- agent-mode session ------------------------- *)
\* startAgentChat: the confirm prompt before anything is created
agentConfirm ==
    /\ pc = "confirm"
    /\ \/ \* cancelled, or answered no
          /\ Exit0("Agent mode cancelled.")
       \/ /\ pc' = "initConversation"
          /\ UNCHANGED <<tokenVars, gatewayVars, displayVars, inFlight, mode, conversationId, user, enabledTools, convVars,
                         turnVars, errorMessage, shown, outcome, storeVars, lastCall,
                         nSessions, nTurns>>
       \/ Throw(E_Prompt)

\* initConversation(user.id, conversationId) of the agent file, then agentLoop
\* up to its prompt
agentInitConversation ==
    /\ pc = "initConversation"
    /\ mode = "agent"
    /\ \/ LET got == getOrCreateConversation(conversations, user, conversationId, "agent") IN
          /\ conversations' = got.convs
          /\ titleUpdates' = IF Len(got.convs) > Len(conversations)
                             THEN Append(titleUpdates, 0) ELSE titleUpdates
          /\ conversation' = got.id
          /\ created' = created + (Len(got.convs) - Len(conversations))
          /\ shown' = "helpBox"
          /\ pc' = "text"
          /\ UNCHANGED <<tokenVars, gatewayVars, displayVars, inFlight, mode, conversationId, user, enabledTools, turnVars,
                         errorMessage, outcome, lastCall, nSessions, nTurns>>
       \/ Throw(E_Db)

\* break out of agentLoop: startAgentChat prints its outro and returns
AgentBreak(message) ==
    /\ AgentChatReturn
    /\ TurnVarsUnset
    /\ errorMessage' = <<>>
    /\ lastCall' = NoCall
    /\ UNCHANGED <<tokenVars, gatewayVars, displayVars, inFlight, mode, conversationId, user, convVars, storeVars,
                   nSessions, nTurns>>

\* agentLoop: the text prompt answered with Enter on `value`
agentLoopText(value) ==
    /\ pc = "text"
    /\ mode = "agent"
    /\ userInput' = value
    /\ validationError' = agentValidate(value)
    /\ IF agentValidate(value) # ""
       THEN \* the prompt shows the message and stays open
            /\ UNCHANGED <<tokenVars, gatewayVars, displayVars, inFlight, pc, mode, conversationId, user, enabledTools,
                           convVars, messagesLength, aiResponse, errorMessage, shown,
                           outcome, storeVars, lastCall, nSessions, nTurns>>
       ELSE IF toLowerCase(value) = S_exit
       THEN \* break; agentLoop returns to startAgentChat
            /\ AgentChatReturn
            /\ UNCHANGED <<tokenVars, gatewayVars, displayVars, inFlight, mode, conversationId, user, convVars,
                           messagesLength, aiResponse, errorMessage, storeVars, lastCall,
                           nSessions, nTurns>>
       ELSE /\ nTurns < MaxTurns
            /\ nTurns' = nTurns + 1
            /\ shown' = "userBox"
            /\ pc' = "saveUser"
            /\ UNCHANGED <<tokenVars, gatewayVars, displayVars, inFlight, mode, conversationId, user, enabledTools,
                           convVars, messagesLength, aiResponse, errorMessage, outcome,
                           storeVars, lastCall, nSessions>>

\* agentLoop: the text prompt cancelled: process.exit(0)
agentLoopCancel ==
    /\ pc = "text"
    /\ mode = "agent"
    /\ Exit0("Agent session cancelled")

\* agentLoop line 182: saveMessage(conversation.id, "user", userInput), outside
\* the loop's try
agentLoopSaveUser ==
    /\ pc = "saveUser"
    /\ mode = "agent"
    /\ \/ /\ conversations' = addMessage(conversations, conversation, "user", userInput)
          /\ pc' = "generate"
          /\ UNCHANGED <<tokenVars, gatewayVars, displayVars, inFlight, mode, conversationId, user, enabledTools, convVars,
                         turnVars, errorMessage, shown, outcome, titleUpdates, lastCall,
                         nSessions, nTurns>>
       \/ Throw(E_Db)

\* catch (error) of agentLoop's try going to the retry question at once
agentLoopCatch_NoMarker(message) ==
    /\ errorMessage' = message
    /\ shown' = "errorLine"
    /\ pc' = "retryPrompt"
    /\ UNCHANGED <<tokenVars, gatewayVars, displayVars, inFlight, mode, conversationId, user,
                   enabledTools, convVars, turnVars, outcome, storeVars, lastCall,
                   nSessions, nTurns>>

\* catch (error) of agentLoop's try: the error line, then the marker is saved
agentLoopCatch(message) ==
    /\ errorMessage' = message
    /\ shown' = "errorLine"
    /\ pc' = "saveError"
    /\ UNCHANGED <<tokenVars, gatewayVars, displayVars, inFlight, mode, conversationId, user, enabledTools, convVars,
                   turnVars, outcome, storeVars, lastCall, nSessions, nTurns>>

\* agentLoop lines 185-193: generateApplication(...) and the test of its result
agentLoopGenerate ==
    /\ pc = "generate"
    /\ \/ \E result \in {GenResult} :
             /\ result.success
             /\ aiResponse' = responseMessage(result)
             /\ shown' = "generated"
             /\ pc' = "saveAssistant"
             /\ UNCHANGED <<tokenVars, gatewayVars, displayVars, inFlight, mode, conversationId, user, enabledTools,
                            convVars, userInput, validationError, messagesLength,
                            errorMessage, outcome, storeVars, lastCall, nSessions, nTurns>>
       \/ \* no result, or one without success: throw new Error(...)
          agentLoopCatch(E_NoResult)
       \/ \* generateApplication raises
          agentLoopCatch(E_Generate)

\* agentLoop line 194: saveMessage(conversation.id, "assistant", responseMessage),
\* inside the loop's try
agentLoopSaveAssistant ==
    /\ pc = "saveAssistant"
    /\ mode = "agent"
    /\ \/ /\ conversations' = addMessage(conversations, conversation, "assistant", aiResponse)
          /\ pc' = "continuePrompt"
          /\ UNCHANGED <<tokenVars, gatewayVars, displayVars, inFlight, mode, conversationId, user, enabledTools, convVars,
                         turnVars, errorMessage, shown, outcome, titleUpdates, lastCall,
                         nSessions, nTurns>>
       \/ agentLoopCatch(E_Db)

\* the loop going round without asking: the same input is generated again
AgentNextIteration_NoPrompt ==
    /\ pc' = "generate"
    /\ shown' = "prompt"
    /\ errorMessage' = <<>>
    /\ UNCHANGED <<tokenVars, gatewayVars, displayVars, inFlight, mode, conversationId, user,
                   enabledTools, convVars, turnVars, outcome, storeVars, lastCall,
                   nSessions, nTurns>>

\* the next iteration of agentLoop: its prompt, with the iteration's locals unset
AgentNextIteration ==
    /\ pc' = "text"
    /\ userInput' = <<>>
    /\ validationError' = ""
    /\ messagesLength' = -1
    /\ aiResponse' = <<>>
    /\ shown' = "prompt"
    /\ errorMessage' = <<>>
    /\ UNCHANGED <<tokenVars, gatewayVars, displayVars, inFlight, mode, conversationId, user, enabledTools, convVars,
                   outcome, storeVars, lastCall, nSessions, nTurns>>

\* agentLoop lines 196-204: "generate another application?"
agentLoopContinuePrompt ==
    /\ pc = "continuePrompt"
    /\ \/ AgentBreak("Great! Check your new application.")
       \/ AgentNextIteration

\* agentLoop line 212: saveMessage(conversation.id, "assistant", `Error: ...`)
agentLoopSaveError ==
    /\ pc = "saveError"
    /\ \/ /\ conversations' = addMessage(conversations, conversation, "assistant",
                                         S_ErrorPrefix \o errorMessage)
          /\ pc' = "retryPrompt"
          /\ UNCHANGED <<tokenVars, gatewayVars, displayVars, inFlight, mode, conversationId, user, enabledTools, convVars,
                         turnVars, errorMessage, shown, outcome, titleUpdates, lastCall,
                         nSessions, nTurns>>
       \/ Throw(E_Db)

\* agentLoop lines 214-221: "try again?"
agentLoopRetryPrompt ==
    /\ pc = "retryPrompt"
    /\ \/ AgentBreak("")
       \/ AgentNextIteration

(* --------------------------- specification ----------------------------- *)
Next ==
    \/ StartToolChat
    \/ StartAgentChat
    \/ getUserFromToken
    \/ selectTools
    \/ initConversation
    \/ \E value \in chatInputs : chatLoopText(value)
    \/ chatLoopCancel
    \/ chatLoopSaveUser
    \/ chatLoopGetMessages
    \/ getAiResponse
    \/ getAiResponseSettled
    \/ chatLoopSaveAssistant
    \/ chatLoopUpdateTitle
    \/ agentConfirm
    \/ agentInitConversation
    \/ \E value \in agentInputs : agentLoopText(value)
    \/ agentLoopCancel
    \/ agentLoopSaveUser
    \/ agentLoopGenerate
    \/ agentLoopSaveAssistant
    \/ agentLoopContinuePrompt
    \/ agentLoopSaveError
    \/ agentLoopRetryPrompt

Spec == Init /\ [][Next]_vars

(* ------------------- credential checks (lib/token.ts) ------------------ *)
sessionVars == <<pc, mode, conversationId, user, enabledTools, conversation, created, userInput,
                 validationError, messagesLength, aiResponse, errorMessage, shown,
                 outcome, conversations, titleUpdates, lastCall, nSessions, nTurns,
                 inFlight>>

\* expiry instants (ms) a credential file may carry
ExpiryTimes == {0, 1, FiveMinutes - 1, FiveMinutes, FiveMinutes + 1, 2 * FiveMinutes}

CredentialFiles ==
    {MissingFile, UnparseableFile, TokenData("tokA", NoDate), TokenData("tokA", InvalidDate)}
    \cup {TokenData("tokA", toISOString(ms)) : ms \in ExpiryTimes}

\* expires_in (seconds) of the token a login stores; 0 stands for none given
ExpiresIn == {0, 300, 301}

InitToken ==
    /\ tokenFile \in CredentialFiles
    /\ now \in 0..MaxNow
    /\ lastCheck = NoCheck
    /\ pc = "idle"
    /\ mode = ""
    /\ conversationId = 0
    /\ user = ""
    /\ enabledTools = {}
    /\ conversation = 0
    /\ created = 0
    /\ userInput = <<>>
    /\ validationError = ""
    /\ messagesLength = -1
    /\ aiResponse = <<>>
    /\ errorMessage = <<>>
    /\ shown = ""
    /\ outcome = ""
    /\ conversations = <<>>
    /\ titleUpdates = <<>>
    /\ lastCall = NoCall
    /\ nSessions = 0
    /\ nTurns = 0
    /\ inFlight = 0
    /\ GatewayIdle
    /\ DisplayIdle

\* storeToken(token): the file written, or the write failing
storeToken ==
    \/ \E expires_in \in ExpiresIn :
          /\ tokenFile' = TokenData("tokA",
                 IF expires_in # 0 THEN toISOString(now + expires_in * 1000) ELSE NoDate)
          /\ UNCHANGED <<now, lastCheck, sessionVars, gatewayVars, displayVars>>
    \/ UNCHANGED vars

\* clearStoredToken(): unlink
clearStoredToken ==
    /\ tokenFile' = MissingFile
    /\ UNCHANGED <<now, lastCheck, sessionVars, gatewayVars, displayVars>>

\* a call of isTokenExpired(), with what it read and what it returned
isTokenExpiredCall ==
    /\ lastCheck' = [done |-> TRUE, op |-> "isTokenExpired", file |-> tokenFile, at |-> now,
                     result |-> isTokenExpired(tokenFile, now), exit |-> FALSE]
    /\ UNCHANGED <<tokenFile, now, sessionVars, gatewayVars, displayVars>>

\* a call of requireAuth(): process.exit(1) without a token or with an expired one
requireAuth ==
    /\ lastCheck' = [done |-> TRUE, op |-> "requireAuth", file |-> tokenFile, at |-> now,
                     result |-> isTokenExpired(tokenFile, now),
                     exit |-> getStoredToken(tokenFile).isNull
                              \/ isTokenExpired(tokenFile, now)]
    /\ UNCHANGED <<tokenFile, now, sessionVars, gatewayVars, displayVars>>

NextToken ==
    \/ storeToken
    \/ clearStoredToken
    \/ isTokenExpiredCall
    \/ requireAuth

SpecToken == InitToken /\ [][NextToken]_vars

(* ---------------- the wakeup command (commands/ai/wakeUp.ts) ----------- *)
\* wakeUpAction lines 11-20: a new process reads the credential file
wakeUpAction ==
    /\ pc \in {"idle", "terminated"}
    /\ nSessions < MaxSessions
    /\ nTurns < MaxTurns
    /\ \E file \in {tokenFile, MissingFile} :
          /\ tokenFile' = file
          /\ IF getStoredToken(file).isNull \/ getStoredToken(file).access_token = ""
             THEN /\ shown' = "You must be logged in to wake up the AI Agent."
                  /\ outcome' = "returned"
                  /\ pc' = "terminated"
             ELSE /\ shown' = "spinner"
                  /\ outcome' = "running"
                  /\ pc' = "findFirst"
    /\ mode' = ""
    /\ conversationId' = 0
    /\ user' = ""
    /\ enabledTools' = {}
    /\ conversation' = 0
    /\ created' = 0
    /\ TurnVarsUnset
    /\ errorMessage' = <<>>
    /\ lastCall' = NoCall
    /\ inFlight' = 0
    /\ UNCHANGED <<now, lastCheck, storeVars, nSessions, nTurns, gatewayVars, displayVars>>

\* wakeUpAction lines 22-49: prisma.user.findFirst by the token, and its test
wakeUpFindFirst ==
    /\ pc = "findFirst"
    /\ \/ \* the query rejects: nothing catches it, the process fails
          /\ errorMessage' = E_Db
          /\ shown' = "uncaught"
          /\ outcome' = "exit1"
          /\ pc' = "terminated"
          /\ user' = user
       \/ LET found == findFirstUser(getStoredToken(tokenFile).access_token) IN
          IF found = ""
          THEN /\ shown' = "Invalid token. Please log in again."
               /\ outcome' = "returned"
               /\ pc' = "terminated"
               /\ UNCHANGED <<user, errorMessage>>
          ELSE /\ user' = found
               /\ shown' = "hello"
               /\ pc' = "select"
               /\ UNCHANGED <<outcome, errorMessage>>
    /\ UNCHANGED <<tokenVars, gatewayVars, displayVars, inFlight, mode, conversationId, enabledTools,
                   convVars, turnVars, storeVars, lastCall, nSessions, nTurns>>

\* startChat("chat") of cli/chat/chat-with-ai: the chat session taken as a
\* whole; it ends
startChat ==
    /\ mode' = "chat"
    /\ shown' = "outro"
    /\ outcome' = "returned"
    /\ pc' = "terminated"
    /\ UNCHANGED <<tokenVars, gatewayVars, displayVars, inFlight, conversationId, user, enabledTools,
                   convVars, turnVars, errorMessage, storeVars, lastCall, nSessions,
                   nTurns>>

\* wakeUpAction lines 51-82: the select prompt and the switch over its value;
\* a cancelled prompt matches no case and the action returns
wakeUpSelect(choice) ==
    /\ pc = "select"
    /\ CASE choice = "chat" -> startChat
         [] choice = "tool" -> NewProcess("tool", 0, tokenFile)
         [] choice = "agent" -> NewProcess("agent", 0, tokenFile)
         [] OTHER ->
              /\ outcome' = "returned"
              /\ pc' = "terminated"
              /\ UNCHANGED <<tokenVars, gatewayVars, displayVars, inFlight, mode, conversationId, user,
                             enabledTools, convVars, turnVars, errorMessage, shown,
                             storeVars, lastCall, nSessions, nTurns>>

NextWakeUp ==
    \/ wakeUpAction
    \/ wakeUpFindFirst
    \/ \E choice \in {"chat", "tool", "agent", "cancel"} : wakeUpSelect(choice)
    \/ getUserFromToken
    \/ selectTools
    \/ initConversation
    \/ \E value \in chatInputs : chatLoopText(value)
    \/ chatLoopCancel
    \/ chatLoopSaveUser
    \/ chatLoopGetMessages
    \/ getAiResponse
    \/ getAiResponseSettled
    \/ chatLoopSaveAssistant
    \/ chatLoopUpdateTitle
    \/ agentConfirm
    \/ agentInitConversation
    \/ \E value \in agentInputs : agentLoopText(value)
    \/ agentLoopCancel
    \/ agentLoopSaveUser
    \/ agentLoopGenerate
    \/ agentLoopSaveAssistant
    \/ agentLoopContinuePrompt
    \/ agentLoopSaveError
    \/ agentLoopRetryPrompt

SpecWakeUp == Init /\ [][NextWakeUp]_vars

(* -------------- one sendMessage call (openai-service.ts) --------------- *)
\* sequential tool-use steps the hosted model asks for in one call, at most
MaxRequested == 6

\* what the hosted model produces, in arrival order
TextPart(chunk) == [type |-> "text", chunk |-> chunk, toolCall |-> 0]
ToolCallPart(toolCall) == [type |-> "tool-call", chunk |-> <<>>, toolCall |-> toolCall]

\* the callback invocations sendMessage makes
OnChunk(chunk) == [fn |-> "onChunk", chunk |-> chunk, toolCall |-> 0]
OnToolCall(toolCall) == [fn |-> "onToolCall", chunk |-> <<>>, toolCall |-> toolCall]

\* a step of fullResult.steps; the last step of a call makes no tool call
Step(toolCalls) == [toolCalls |-> toolCalls]
FinalStep == Step(<<>>)

\* the fragment put in front of the text received so far
appendChunk_Prepend(response, chunk) == chunk \o response

\* line 76: fullResponse += chunk
appendChunk(response, chunk) == response \o chunk

\* lines 84-103: the toolCalls pushed while walking fullResult.steps
RECURSIVE collectToolCalls(_)
collectToolCalls(ss) ==
    IF ss = <<>> THEN <<>>
    ELSE (IF Len(Head(ss).toolCalls) > 0 THEN Head(ss).toolCalls ELSE <<>>)
         \o collectToolCalls(Tail(ss))

\* streamText under streamConfig: after a tool-use step another generation
\* step runs while the model asks for one and fewer than maxSteps have run
streamTextContinues(config, stepsDone, requested) ==
    /\ config.hasTools
    /\ stepsDone < requested
    /\ stepsDone < config.maxSteps

\* inputs of a call
GatewayMessages == { <<[role |-> "user", content |-> S_hi]>> }
GatewayTools == { NoTools, Tools({}), Tools({"google_search"}) }
GatewayStreams == { <<>>, <<S_Hel>>, <<S_Hel, S_lo>>, <<S_lo, S_Hel>> }

InitGateway ==
    /\ Init
    /\ tokenFile = MissingFile

\* sendMessage(messages, onChunk, tools, onToolCall) up to the text stream:
\* streamConfig is built and streamText(streamConfig) awaited
sendMessageCall(via, messages, onChunk, tools, onToolCall, stream, requested, stepsIsArray) ==
    /\ gatewayPc = "idle"
    /\ args' = [via |-> via, messages |-> messages, onChunk |-> onChunk, tools |-> tools,
                onToolCall |-> onToolCall, stream |-> stream, requested |-> requested,
                stepsIsArray |-> stepsIsArray]
    /\ \/ /\ gatewayPc' = "textStream"
          /\ textStreamRest' = stream
       \/ \* streamText fails: catch, console.error, throw error
          /\ gatewayPc' = "thrown"
          /\ textStreamRest' = <<>>
    /\ UNCHANGED <<tokenVars, sessionVars, displayVars, steps, parts, callbacks, fullResponse,
                   callerResponse, returned>>

\* a caller of sendMessage with its own callbacks
SendMessage ==
    \E messages \in GatewayMessages, onChunk \in BOOLEAN, tools \in GatewayTools,
       onToolCall \in BOOLEAN, stream \in GatewayStreams,
       requested \in 0..MaxRequested, stepsIsArray \in BOOLEAN :
        sendMessageCall("sendMessage", messages, onChunk, tools, onToolCall, stream,
                        requested, stepsIsArray)

\* getMessage(messages, tools): sendMessage with an accumulating onChunk and
\* no onToolCall
getMessage ==
    \E messages \in GatewayMessages, tools \in GatewayTools, stream \in GatewayStreams,
       requested \in 0..MaxRequested, stepsIsArray \in BOOLEAN :
        sendMessageCall("getMessage", messages, TRUE, tools, FALSE, stream,
                        requested, stepsIsArray)

\* the hosted model makes a tool call and streamText runs it: one more step
streamTextToolStep ==
    /\ gatewayPc = "textStream"
    /\ streamTextContinues(streamConfig(args.messages, args.tools), Len(steps),
                           args.requested)
    /\ steps' = Append(steps, Step(<<Len(steps) + 1>>))
    /\ parts' = Append(parts, ToolCallPart(Len(steps) + 1))
    /\ UNCHANGED <<tokenVars, sessionVars, displayVars, gatewayPc, args, textStreamRest, callbacks,
                   fullResponse, callerResponse, returned>>

\* lines 75-80: one iteration of for await (const chunk of result.textStream)
sendMessageChunk ==
    /\ gatewayPc = "textStream"
    /\ textStreamRest # <<>>
    /\ LET chunk == Head(textStreamRest) IN
       /\ textStreamRest' = Tail(textStreamRest)
       /\ parts' = Append(parts, TextPart(chunk))
       /\ fullResponse' = appendChunk(fullResponse, chunk)
       /\ IF args.onChunk
          THEN /\ callbacks' = Append(callbacks, OnChunk(chunk))
               /\ callerResponse' = callerResponse \o chunk
          ELSE UNCHANGED <<callbacks, callerResponse>>
    /\ UNCHANGED <<tokenVars, sessionVars, displayVars, gatewayPc, args, steps, returned>>

\* the stream fails: catch, console.error, throw error
sendMessageThrows ==
    /\ gatewayPc = "textStream"
    /\ gatewayPc' = "thrown"
    /\ UNCHANGED <<tokenVars, sessionVars, displayVars, args, textStreamRest, steps, parts, callbacks,
                   fullResponse, callerResponse, returned>>

\* lines 82-111: the stream has ended; fullResult.steps is walked when it is
\* an array, each tool call pushed and handed to onToolCall; the result
sendMessageReturn ==
    /\ gatewayPc = "textStream"
    /\ textStreamRest = <<>>
    /\ ~streamTextContinues(streamConfig(args.messages, args.tools), Len(steps),
                            args.requested)
    /\ LET toolCalls == IF args.stepsIsArray
                        THEN collectToolCalls(Append(steps, FinalStep))
                        ELSE <<>> IN
       /\ callbacks' = callbacks \o
                        (IF args.onToolCall
                         THEN [i \in 1..Len(toolCalls) |-> OnToolCall(toolCalls[i])]
                         ELSE <<>>)
       /\ returned' = [content |-> fullResponse, toolCalls |-> toolCalls]
    /\ gatewayPc' = "returned"
    /\ UNCHANGED <<tokenVars, sessionVars, displayVars, args, textStreamRest, steps, parts,
                   fullResponse, callerResponse>>

NextGateway ==
    \/ SendMessage
    \/ getMessage
    \/ streamTextToolStep
    \/ sendMessageChunk
    \/ sendMessageThrows
    \/ sendMessageReturn

SpecGateway == InitGateway /\ [][NextGateway]_vars

(* ------- previous messages of a resumed session (chat-with-tool.ts) ----- *)
MaxStored == 5

\* conversation.messages of a stored conversation, oldest first: the first
\* message is the user's, and an assistant message answers a user message
StoredMessages ==
    UNION { { [i \in 1..n |-> [id |-> i, role |-> r[i]]] :
                r \in { q \in [1..n -> {"user", "assistant"}] :
                          /\ n > 0 => q[1] = "user"
                          /\ \A i \in 1..(n - 1) :
                                ~(q[i] = "assistant" /\ q[i + 1] = "assistant") } } :
            n \in 0..MaxStored }

\* what console.log and the prompt put on the terminal
Box(kind, id) == [box |-> kind, id |-> id]

\* the continuation an await queues once the awaited value has settled
Continuation(of, id) == [of |-> of, id |-> id]

\* initConversation lines 179-220, after getOrCreateConversation returned
\* the conversation: the information box, and for a conversation that has
\* messages the heading and the call of displayMessages
resumeConversation ==
    /\ displayPc = "idle"
    /\ \E stored \in StoredMessages :
          /\ previousMessages' = stored
          /\ rendered' = IF Len(stored) > 0
                           THEN <<Box("conversationInfo", 0), Box("previousMessages", 0)>>
                           ELSE <<Box("conversationInfo", 0)>>
    /\ forEachIndex' = 1
    /\ displayPc' = "forEach"
    /\ UNCHANGED <<tokenVars, sessionVars, gatewayVars, microtasks>>

\* displayMessages lines 226-249, one call of the async callback by forEach:
\* a user message is boxed and printed before the callback returns; for an
\* assistant message the callback returns at `await marked.parse(...)`
\* (a string, not a promise) and its remainder is queued
displayMessagesCallback ==
    /\ displayPc = "forEach"
    /\ forEachIndex <= Len(previousMessages)
    /\ LET msg == previousMessages[forEachIndex]
       IN  IF msg.role = "user"
             THEN /\ rendered' = Append(rendered, Box("user", msg.id))
                  /\ UNCHANGED microtasks
             ELSE /\ microtasks' = Append(microtasks, Continuation("displayMessages", msg.id))
                  /\ UNCHANGED rendered
    /\ forEachIndex' = forEachIndex + 1
    /\ UNCHANGED <<tokenVars, sessionVars, gatewayVars, displayPc, previousMessages>>

\* forEach has called the callback on every message (or displayMessages was
\* not called): initConversation returns the conversation, which settles the
\* promise startToolChat awaits at line 398
initConversationReturns ==
    /\ displayPc = "forEach"
    /\ forEachIndex > Len(previousMessages)
    /\ microtasks' = Append(microtasks, Continuation("startToolChat", 0))
    /\ displayPc' = "awaited"
    /\ UNCHANGED <<tokenVars, sessionVars, gatewayVars, previousMessages, forEachIndex,
                   rendered>>

\* the oldest queued continuation runs: the rest of a displayMessages
\* callback prints the assistant box (lines 239-247); the rest of
\* startToolChat calls chatLoop, which prints the help box and opens the
\* first prompt (lines 309-330)
runMicrotask ==
    /\ displayPc = "awaited"
    /\ microtasks # <<>>
    /\ LET job == Head(microtasks)
       IN  IF job.of = "displayMessages"
             THEN /\ rendered' = Append(rendered, Box("assistant", job.id))
                  /\ UNCHANGED displayPc
             ELSE /\ rendered' = rendered \o <<Box("helpBox", 0), Box("prompt", 0)>>
                  /\ displayPc' = "prompt"
    /\ microtasks' = Tail(microtasks)
    /\ UNCHANGED <<tokenVars, sessionVars, gatewayVars, previousMessages, forEachIndex>>

NextDisplay ==
    \/ resumeConversation
    \/ displayMessagesCallback
    \/ initConversationReturns
    \/ runMicrotask

\* the session that resumes a conversation runs for a resolved user
InitDisplay ==
    /\ Init
    /\ ~getStoredToken(tokenFile).isNull
    /\ findFirstUser(getStoredToken(tokenFile).access_token) # ""

SpecDisplay == InitDisplay /\ [][NextDisplay]_vars

(* ============================== claims ================================= *)
\* the spellings of the exit sentinel the prompts are given
ExitSpellings == {S_exit, S_ExIt}

SessionEnded == pc = "terminated"

LastMessage(c) == conversations[c].messages[Len(conversations[c].messages)]

(* C1: in every Terminated state of a tool-mode session the enabled tool set
   is empty (resetTools() ran on every exit path: exit sentinel, cancellation
   at either prompt, error). *)
C1_ToolsResetOnEveryExit ==
    (SessionEnded /\ mode = "tool") => enabledTools = {}

(* C2: in the tool-chat loop a failed Model Gateway call is recovered at the
   loop level: the session is not ended by it; an error-marker assistant
   message is persisted (or about to be) and a retry-or-stop choice follows. *)
C2_GatewayFailureRecovered ==
    (mode = "tool" /\ errorMessage = E_Api) =>
        /\ ~SessionEnded
        /\ \/ pc = "saveError"
           \/ /\ pc = "retryPrompt"
              /\ LastMessage(conversation).role = "assistant"
              /\ LastMessage(conversation).content = S_ErrorPrefix \o E_Api

(* C3: a session whose stored credential is expired (or has no expiry) is
   unauthenticated: it resolves no user and never has a conversation. *)
C3_ExpiredIsUnauthenticated ==
    (pc # "idle" /\ isTokenExpired(tokenFile, now)) => (user = "" /\ conversation = 0)

(* C4 as claimed: isTokenExpired is true when expires_at is absent or in the
   past, false when it lies more than five minutes ahead, and true when it
   lies exactly five minutes ahead. *)
Absent(file) == file.kind # "json" \/ file.expires_at.kind = "null"
HasInstant(file) == file.kind = "json" /\ file.expires_at.kind = "iso"
Ahead(file, at) == file.expires_at.ms - at

C4_BoundaryCountsAsExpired ==
    (lastCheck.done /\ lastCheck.op = "isTokenExpired") =>
        LET f == lastCheck.file  at == lastCheck.at IN
        /\ Absent(f) => lastCheck.result
        /\ (HasInstant(f) /\ Ahead(f, at) < 0) => lastCheck.result
        /\ (HasInstant(f) /\ Ahead(f, at) > FiveMinutes) => ~lastCheck.result
        /\ (HasInstant(f) /\ Ahead(f, at) = FiveMinutes) => lastCheck.result

(* C4 amended: isTokenExpired is true when expires_at is absent or in the
   past, false when it lies more than five minutes ahead, and false when it
   lies exactly five minutes ahead: an instant counts as expired exactly
   when it is less than 300000 ms ahead. *)
C4_ExpiredIffLessThanFiveMinutesAhead ==
    (lastCheck.done /\ lastCheck.op = "isTokenExpired") =>
        LET f == lastCheck.file  at == lastCheck.at IN
        /\ Absent(f) => lastCheck.result
        /\ (HasInstant(f) /\ Ahead(f, at) < 0) => lastCheck.result
        /\ (HasInstant(f) /\ Ahead(f, at) > FiveMinutes) => ~lastCheck.result
        /\ (HasInstant(f) /\ Ahead(f, at) = FiveMinutes) => ~lastCheck.result
        /\ HasInstant(f) => (lastCheck.result <=> Ahead(f, at) < FiveMinutes)

\* a check made exactly five minutes before the expiry instant returned false
C4_Witness ==
    /\ lastCheck.done
    /\ lastCheck.op = "isTokenExpired"
    /\ HasInstant(lastCheck.file)
    /\ Ahead(lastCheck.file, lastCheck.at) = FiveMinutes
    /\ lastCheck.at > 0
    /\ ~lastCheck.result

(* C5: right after a Model Gateway call of a tool-mode session, the call was
   given the full formatted history, and the enabled tools when at least one
   tool is enabled (no tool set when none is). *)
C5_GatewayGivenEnabledTools ==
    (mode = "tool" /\ pc = "saveAssistant" /\ lastCall.made) =>
        /\ lastCall.config.messages = formatMessages(getMessages(conversations, conversation))
        /\ IF enabledTools # {}
           THEN lastCall.config.hasTools /\ lastCall.config.tools = enabledTools
           ELSE ~lastCall.config.hasTools

(* C6: whenever no turn is in progress, every conversation that has had a
   turn (holds a message) has had updateTitle invoked exactly once. *)
C6_TitleUpdatedExactlyOnce ==
    pc \in {"text", "terminated"} =>
        \A c \in 1..Len(conversations) :
            Len(conversations[c].messages) >= 1 => titleUpdates[c] = 1

(* C7: in every mode, once "exit" has been entered at the input prompt the
   session is Terminated by a normal return of the loop. *)
C7_ExitEndsSession ==
    userInput \in ExitSpellings => (SessionEnded /\ outcome = "returned")

(* C8: an exception that is not handled inside the loop ends the session in
   Terminated with the error shown, the enabled tool set empty and a
   non-zero process outcome. *)
HandledInLoop == pc \in {"saveError", "retryPrompt"}

C8_UnhandledExceptionTerminates ==
    (errorMessage # <<>> /\ ~HandledInLoop) =>
        /\ SessionEnded
        /\ shown = "errorBox"
        /\ enabledTools = {}
        /\ outcome = "exit1"

\* a tool-mode session, tools enabled or not, ended by a failed model call
C8_Witness ==
    /\ mode = "tool"
    /\ SessionEnded
    /\ errorMessage = E_Api
    /\ lastCall.made
    /\ outcome = "exit1"

(* C9: a session invoked without a credential that resolves to a user (no
   file, unparseable file, no access token, token of no user) goes from
   authentication straight to Terminated with the auth error shown; it
   resolves no user, enables no tool, has no conversation, and no step of it
   changes the conversation table. *)
Unauthenticated(file) ==
    \/ getStoredToken(file).isNull
    \/ getStoredToken(file).access_token = ""
    \/ findFirstUser(getStoredToken(file).access_token) = ""

AuthErrorOf(file) ==
    IF getStoredToken(file).isNull \/ getStoredToken(file).access_token = ""
    THEN E_NotAuthenticated ELSE E_InvalidToken

C9_State ==
    (pc # "idle" /\ Unauthenticated(tokenFile)) =>
        /\ pc \in {"getUserFromToken", "terminated"}
        /\ user = ""
        /\ enabledTools = {}
        /\ conversation = 0
        /\ created = 0
        /\ SessionEnded =>
              /\ shown = "errorBox"
              /\ outcome = "exit1"
              /\ errorMessage \in {AuthErrorOf(tokenFile), E_Db}
              /\ (getStoredToken(tokenFile).access_token = "") => errorMessage = E_NotAuthenticated

C9_Step ==
    (pc # "idle" /\ Unauthenticated(tokenFile) /\ ~SessionEnded) =>
        (conversations' = conversations /\ titleUpdates' = titleUpdates)

C9_UnauthenticatedTerminates == []C9_State /\ [][C9_Step]_vars

\* a session without a credential file, ended, with conversations of an
\* earlier session in the table
C9_Witness ==
    /\ tokenFile = MissingFile
    /\ SessionEnded
    /\ errorMessage = E_NotAuthenticated
    /\ Len(conversations) > 0
    /\ Len(conversations[1].messages) > 0

(* C10: in a tool-mode session of an authenticated user started without a
   conversation id, "exit" in any letter case entered as the first input
   ends the loop by a normal return, with exactly one conversation created by
   the session, no message in it, its title the placeholder, and nothing
   written to the table by the step. *)
C10_Step ==
    (/\ pc = "text"
     /\ mode = "tool"
     /\ conversationId = 0
     /\ userInput' \in ExitSpellings) =>
        /\ pc' = "terminated"
        /\ outcome' = "returned"
        /\ shown' = "outro"
        /\ created' = 1
        /\ conversations' = conversations
        /\ titleUpdates' = titleUpdates
        /\ (Len(conversations[conversation].messages) = 0 =>
               /\ conversations'[conversation].title = PlaceholderTitle
               /\ conversations'[conversation].mode = "tool"
               /\ conversations'[conversation].userId = user
               /\ titleUpdates'[conversation] = 0)

C10_FirstInput ==
    (pc = "text" /\ conversationId = 0 /\ created = 1 /\ nTurns = 0) =>
        /\ conversation = Len(conversations)
        /\ conversations[conversation].messages = <<>>

C10_ExitAsFirstInput == []C10_FirstInput /\ [][C10_Step]_vars

\* "ExIt" was the first input of a session that created its conversation
C10_Witness ==
    /\ mode = "tool"
    /\ SessionEnded
    /\ outcome = "returned"
    /\ conversationId = 0
    /\ userInput = S_ExIt
    /\ created = 1
    /\ conversations[conversation].messages = <<>>
    /\ conversations[conversation].title = PlaceholderTitle

(* C11: in a tool-mode session of an authenticated user that created its
   conversation and enabled no tool, once one message has been sent and the
   model call succeeded (a turn is complete and no second one has been
   stored), the conversation has mode "tool", holds exactly the user message
   followed by the assistant message, its title is the user message cut to
   50 characters (with "..." when it was longer), updateTitle ran once, and
   the call carried no tool set. *)
C11_ZeroToolsOneMessage ==
    (/\ mode = "tool"
     /\ pc = "text"
     /\ created = 1
     /\ enabledTools = {}
     /\ lastCall.made
     /\ Len(conversations[conversation].messages) <= 2) =>
        LET c == conversations[conversation] IN
        /\ c.mode = "tool"
        /\ c.userId = user
        /\ Len(c.messages) = 2
        /\ c.messages[1].role = "user"
        /\ c.messages[1].content \in {S_hi, S_long}
        /\ c.messages[2].role = "assistant"
        /\ c.messages[2].content = S_Hel \o S_lo
        /\ c.title = slice0(c.messages[1].content, 50)
                        \o (IF Len(c.messages[1].content) > 50 THEN S_dots ELSE <<>>)
        /\ Len(c.title) <= 53
        /\ titleUpdates[conversation] = 1
        /\ ~lastCall.config.hasTools
        /\ lastCall.config.tools = {}

\* the one message was 51 characters long: the title is cut and marked
C11_Witness ==
    /\ mode = "tool"
    /\ pc = "text"
    /\ created = 1
    /\ enabledTools = {}
    /\ lastCall.made
    /\ Len(conversations[conversation].messages) = 2
    /\ conversations[conversation].messages[1].content = S_long
    /\ conversations[conversation].title = Rep("a", 50) \o S_dots

(* C12: once the first turn of a conversation has completed, in every mode,
   its title is the first user message cut to its first 50 characters, with
   "..." appended exactly when the message is longer, and no later step
   changes the title. *)
TitleOfFirstMessage(c) ==
    slice0(c.messages[1].content, 50)
        \o (IF Len(c.messages[1].content) > 50 THEN S_dots ELSE <<>>)

C12_TitleAfterFirstTurn ==
    (pc = "text" /\ conversation # 0) =>
        LET c == conversations[conversation] IN
        Len(c.messages) >= 2 => c.title = TitleOfFirstMessage(c)

C12_TitleStep ==
    \A c \in 1..Len(conversations) :
        Len(conversations[c].messages) >= 2 =>
            conversations'[c].title = conversations[c].title

C12_TitleFromFirstMessage == []C12_TitleAfterFirstTurn /\ [][C12_TitleStep]_vars

(* C13: for every finite sequence of text fragments the model streams,
   sendMessage invokes onChunk once per fragment, in arrival order (at any
   moment: for exactly the fragments delivered so far), and the content it
   returns is the concatenation of the fragments in that order, which is also
   what the caller accumulated through onChunk. *)
IsOnChunk(callback) == callback.fn = "onChunk"
IsOnToolCall(callback) == callback.fn = "onToolCall"

ChunksReported ==
    LET cs == SelectSeq(callbacks, IsOnChunk) IN [i \in 1..Len(cs) |-> cs[i].chunk]

C13_StreamingInOrder ==
    /\ (gatewayPc \in {"textStream", "returned"} /\ args.onChunk) =>
          /\ Len(ChunksReported) + Len(textStreamRest) = Len(args.stream)
          /\ ChunksReported = SubSeq(args.stream, 1, Len(ChunksReported))
    /\ gatewayPc = "returned" =>
          /\ returned.content = Concat(args.stream)
          /\ args.onChunk => /\ ChunksReported = args.stream
                             /\ callerResponse = returned.content
          /\ ~args.onChunk => ChunksReported = <<>>

\* the fragments "Hel", "lo": two onChunk invocations, content "Hello"
C13_Witness ==
    /\ gatewayPc = "returned"
    /\ args.stream = <<S_Hel, S_lo>>
    /\ args.onChunk
    /\ SelectSeq(callbacks, IsOnChunk) = <<OnChunk(S_Hel), OnChunk(S_lo)>>
    /\ returned.content = <<"H", "e", "l", "l", "o">>
    /\ callerResponse = <<"H", "e", "l", "l", "o">>

(* C14: within one call that is given a non-empty tool set, at most 5
   tool-use steps are executed, and exactly 5 by the time the call returns
   when the model asks for 6 or more; a call without a tool set executes
   none. *)
C14_ToolStepCap ==
    gatewayPc # "idle" =>
        /\ Len(steps) <= 5
        /\ Len(steps) <= args.requested
        /\ (args.tools.defined /\ args.tools.names # {}) =>
              (gatewayPc = "returned" =>
                  /\ args.requested >= 6 => Len(steps) = 5
                  /\ args.requested <= 5 => Len(steps) = args.requested
                  /\ Len(returned.toolCalls) <= 5)
        /\ ~(args.tools.defined /\ args.tools.names # {}) => Len(steps) = 0

\* the model asked for 6 steps of a call with a tool: 5 ran, then it returned
C14_Witness ==
    /\ gatewayPc = "returned"
    /\ args.tools = Tools({"google_search"})
    /\ args.requested = 6
    /\ Len(steps) = 5
    /\ args.stepsIsArray
    /\ Len(returned.toolCalls) = 5

(* C15: every tool call the model makes during a call is handed to
   onToolCall at the point it is produced relative to the text fragments,
   once, and the returned toolCalls are the reported calls in that order:
   with both callbacks given, the invocations made are exactly the parts
   produced, in arrival order. *)
CallbackOf(part) ==
    IF part.type = "text" THEN OnChunk(part.chunk) ELSE OnToolCall(part.toolCall)

ToolCallsReported ==
    LET cs == SelectSeq(callbacks, IsOnToolCall) IN [i \in 1..Len(cs) |-> cs[i].toolCall]

C15_ToolCallsReportedAsProduced ==
    (gatewayPc = "returned" /\ args.onChunk /\ args.onToolCall) =>
        /\ callbacks = [i \in 1..Len(parts) |-> CallbackOf(parts[i])]
        /\ returned.toolCalls = ToolCallsReported

(* C16: in agent mode, when the generation collaborator raises, reports
   failure or returns no result, the session is not ended by it: nothing is
   stored by the failing step, then exactly one assistant message
   "Error: <message>" is appended after the turn's user message (unless the
   store itself fails, which ends the session through the top-level
   handler), then the retry question is asked: retry leads to the input
   prompt on the same conversation, stop or cancellation ends the loop by a
   normal return; neither stores anything. *)
GenerationErrors == {E_NoResult, E_Generate}

C16_State ==
    (mode = "agent" /\ errorMessage \in GenerationErrors) =>
        /\ pc \in {"saveError", "retryPrompt"}
        /\ outcome = "running"
        /\ LET m == conversations[conversation].messages IN
           IF pc = "saveError"
           THEN /\ Len(m) >= 1
                /\ m[Len(m)] = Message(Len(m), "user", userInput)
           ELSE /\ Len(m) >= 2
                /\ m[Len(m)] = Message(Len(m), "assistant", S_ErrorPrefix \o errorMessage)
                /\ m[Len(m) - 1] = Message(Len(m) - 1, "user", userInput)

C16_Step ==
    /\ (mode = "agent" /\ pc = "generate" /\ pc' # "saveAssistant") =>
          /\ pc' = "saveError"
          /\ errorMessage' \in GenerationErrors
          /\ conversations' = conversations
    /\ (mode = "agent" /\ pc = "saveError" /\ errorMessage \in GenerationErrors) =>
          \/ /\ pc' = "retryPrompt"
             /\ errorMessage' = errorMessage
             /\ Len(conversations') = Len(conversations)
             /\ \A c \in 1..Len(conversations) :
                   IF c = conversation
                   THEN conversations'[c].messages =
                          Append(conversations[c].messages,
                                 Message(Len(conversations[c].messages) + 1, "assistant",
                                         S_ErrorPrefix \o errorMessage))
                   ELSE conversations'[c] = conversations[c]
          \/ /\ pc' = "terminated"
             /\ outcome' = "exit1"
             /\ errorMessage' = E_Db
             /\ conversations' = conversations
    /\ (mode = "agent" /\ pc = "retryPrompt") =>
          /\ conversations' = conversations
          /\ conversation' = conversation
          /\ \/ pc' = "text" /\ outcome' = "running"
             \/ pc' = "terminated" /\ outcome' = "returned"

C16_GenerationFailureRecovered == []C16_State /\ [][C16_Step]_vars

\* after "Generation returned no result" the user chose to retry: the input
\* prompt is open again, the marker is the conversation's last message
C16_Witness ==
    /\ mode = "agent"
    /\ pc = "text"
    /\ outcome = "running"
    /\ Len(conversations[conversation].messages) = 2
    /\ conversations[conversation].messages[1].content = S_build
    /\ conversations[conversation].messages[2]
          = Message(2, "assistant", S_ErrorPrefix \o E_NoResult)

(* C17 as claimed: once the assistant message of a successful turn is
   stored, the loop's next step leads to the input prompt, in every mode. *)
C17_SuccessStep ==
    \/ mode = "tool" /\ pc = "updateTitle"
    \/ mode = "agent" /\ pc = "continuePrompt"

C17_SuccessReturnsToInput ==
    [][C17_SuccessStep => (pc' = "text" /\ outcome' = "running")]_vars

(* C17 amended: once the assistant message of a successful turn is stored,
   the tool-mode loop returns to the input prompt on the same conversation,
   unless the title update of a first turn raises (the top-level handler then
   ends the session); the agent-mode loop asks whether to generate another
   application and returns to the input prompt on yes, and ends by a normal
   return on no or cancellation. Neither stores a message. *)
C17_ToolStep ==
    (mode = "tool" /\ pc = "updateTitle") =>
        /\ \A c \in 1..Len(conversations) :
              conversations'[c].messages = conversations[c].messages
        /\ conversation' = conversation
        /\ \/ /\ pc' = "text"
              /\ outcome' = "running"
              /\ enabledTools' = enabledTools
           \/ /\ messagesLength = 1
              /\ pc' = "terminated"
              /\ outcome' = "exit1"
              /\ errorMessage' = E_Db

C17_AgentStep ==
    (mode = "agent" /\ pc = "continuePrompt") =>
        /\ conversations' = conversations
        /\ conversation' = conversation
        /\ \/ pc' = "text" /\ outcome' = "running"
           \/ pc' = "terminated" /\ outcome' = "returned" /\ shown' = "outro"

C17_SuccessReturnsToInputOrAsks == [][C17_ToolStep /\ C17_AgentStep]_vars

\* an agent session ended by "no" to "generate another application?", right
\* after a generation that succeeded
C17_Witness ==
    /\ mode = "agent"
    /\ SessionEnded
    /\ outcome = "returned"
    /\ Len(conversations[conversation].messages) = 2
    /\ LastMessage(conversation) = Message(2, "assistant", responseMessage(GenResult))

(* C18: the mode of a conversation never changes after its creation, and
   the session loop that holds a conversation is the loop of the
   conversation's mode (a conversation id resumed by a session of another
   mode is not processed by that session's loop). *)
C18_LoopOfConversationMode ==
    conversation # 0 => conversations[conversation].mode = mode

C18_ModeStep ==
    \A c \in 1..Len(conversations) : conversations'[c].mode = conversations[c].mode

C18_ModeFixedAndMatched == []C18_LoopOfConversationMode /\ [][C18_ModeStep]_vars

(* C19: in every state of a process at most one sendMessage call is in
   flight, and only while the session function is suspended on it; the
   process has created at most one conversation and holds the same
   conversation until it ends; while a call is in flight no step stores a
   message or a title, answers a prompt or prints. *)
C19_State ==
    /\ inFlight \in {0, 1}
    /\ inFlight = 1 => (pc = "sendMessage" /\ mode = "tool" /\ conversation # 0)
    /\ pc = "sendMessage" => inFlight = 1
    /\ created \in {0, 1}

C19_Step ==
    /\ inFlight = 1 =>
          /\ conversations' = conversations
          /\ titleUpdates' = titleUpdates
          /\ userInput' \in {userInput, <<>>}
          /\ validationError' \in {validationError, ""}
          /\ inFlight' = 0
          /\ pc' \in {"saveAssistant", "terminated"}
    /\ (conversation # 0 /\ pc' # "getUserFromToken") => conversation' = conversation

C19_OneCallOneConversation == []C19_State /\ [][C19_Step]_vars

\* the second session of a behaviour is suspended on its call, with two
\* conversations in the table
C19_Witness ==
    /\ inFlight = 1
    /\ pc = "sendMessage"
    /\ nSessions = 2
    /\ Len(conversations) = 2
    /\ lastCall.made

(* C20: on every turn that calls the Model Gateway, the message list of the
   call is the whole stored history of the conversation, as {role, content}
   pairs in insertion order, messages of earlier sessions included, and its
   last element is the user message stored at the start of the turn. *)
C20_FullHistorySent ==
    (mode = "tool" /\ pc \in {"sendMessage", "saveAssistant"}) =>
        LET m == conversations[conversation].messages
            sent == lastCall.config.messages IN
        /\ lastCall.made
        /\ Len(sent) = Len(m)
        /\ Len(sent) >= 1
        /\ \A i \in 1..Len(m) :
              /\ sent[i] = [role |-> m[i].role, content |-> m[i].content]
              /\ m[i].id = i
        /\ sent[Len(sent)] = [role |-> "user", content |-> userInput]

\* a session resumed a conversation that holds a turn of an earlier session:
\* three messages are sent
C20_Witness ==
    /\ mode = "tool"
    /\ pc = "sendMessage"
    /\ created = 0
    /\ nSessions = 2
    /\ Len(lastCall.config.messages) = 3
    /\ lastCall.config.messages[1].role = "user"
    /\ lastCall.config.messages[2] = [role |-> "assistant", content |-> S_Hel \o S_lo]
    /\ lastCall.config.messages[3] = [role |-> "user", content |-> userInput]

(* C21: an input the prompt's validate() rejects (tool chat: empty or only
   whitespace; agent: empty, only whitespace, or fewer than 10 characters
   once trimmed) leaves the session at the input prompt: the step stores no
   message, makes no gateway or generation call, and changes neither the
   conversation nor the enabled tools; and no such input is ever processed. *)
OnlyWhitespace(s) == \A i \in 1..Len(s) : s[i] = " "

Rejected(sessionMode, s) ==
    \/ OnlyWhitespace(s)
    \/ sessionMode = "agent" /\ Len(trim(s)) < 10

Processing ==
    pc \in {"saveUser", "getMessages", "getAiResponse", "sendMessage", "saveAssistant",
            "updateTitle", "generate", "continuePrompt", "saveError", "retryPrompt"}

C21_State ==
    /\ (pc = "text" /\ validationError # "") => Rejected(mode, userInput)
    /\ (pc = "text" /\ userInput # <<>>) => (validationError # "" <=> Rejected(mode, userInput))
    /\ Processing => (validationError = "" /\ ~Rejected(mode, userInput))

C21_Step ==
    (pc = "text" /\ validationError' # "") =>
        /\ pc' = "text"
        /\ outcome' = "running"
        /\ UNCHANGED <<conversations, titleUpdates, conversation, created, enabledTools,
                       lastCall, inFlight, nTurns, errorMessage, aiResponse, user>>

C21_ValidationRepromptsInPlace == []C21_State /\ [][C21_Step]_vars

\* "exit" rejected at the agent prompt of a conversation that holds a turn
C21_Witness ==
    /\ pc = "text"
    /\ validationError # ""
    /\ mode = "agent"
    /\ userInput = S_exit
    /\ Len(conversations[conversation].messages) = 2

(* C22: a cancellation at a prompt (tool selection, agent confirmation, input
   prompt) ends the session at once with nothing stored, a cancellation or
   "no" at the retry and continue questions ends the loop with nothing
   stored, an ended session takes no further step, and on every step every
   conversation's message sequence is extended or kept: the earlier sequence
   is a prefix of the later one. *)
CancelMessages ==
    { "Tool selection cancelled. No tools will be enabled.", "Agent mode cancelled.",
      "Chat session ended. Goodbye!", "Agent session cancelled" }

IsPrefix(s, r) == Len(s) <= Len(r) /\ SubSeq(r, 1, Len(s)) = s

C22_Step ==
    /\ (shown' \in CancelMessages /\ shown' # shown) =>
          /\ pc \in {"selectTools", "confirm", "text"}
          /\ pc' = "terminated"
          /\ outcome' = "exit0"
          /\ conversations' = conversations
          /\ titleUpdates' = titleUpdates
    /\ (pc \in {"continuePrompt", "retryPrompt"} /\ pc' # "text") =>
          /\ pc' = "terminated"
          /\ conversations' = conversations
    /\ (pc = "terminated" /\ pc' # "terminated") =>
          /\ pc' = "getUserFromToken"
          /\ conversations' = conversations
    /\ Len(conversations') >= Len(conversations)
    /\ \A c \in 1..Len(conversations) :
          IsPrefix(conversations[c].messages, conversations'[c].messages)

C22_CancellationEndsSession == [][C22_Step]_vars

\* the agent prompt cancelled on a conversation that holds a turn
C22_Witness ==
    /\ SessionEnded
    /\ outcome = "exit0"
    /\ shown = "Agent session cancelled"
    /\ Len(conversations[conversation].messages) = 2

(* C24: in every state the enabled tool set is a subset of the catalog's
   ids; it is empty until tool selection, which leaves exactly the picked
   set enabled (none when nothing was picked, and only then the warning);
   no step of the chat loop changes it while the session runs; and it is
   empty once the session ended through resetTools (normal return or
   top-level error handler). *)
CatalogIds == {"google_search", "code_execution"}

C24_State ==
    /\ enabledTools \subseteq CatalogIds
    /\ pc \in {"idle", "getUserFromToken", "selectTools", "confirm"} => enabledTools = {}
    /\ mode = "agent" => enabledTools = {}
    /\ (mode = "tool" /\ pc = "initConversation") =>
          (shown = "No tools selected" <=> enabledTools = {})
    /\ (mode = "tool" /\ SessionEnded /\ outcome \in {"returned", "exit1"}) =>
          enabledTools = {}

C24_Step ==
    (mode = "tool" /\ pc \notin {"idle", "selectTools", "terminated"}
       /\ pc' # "terminated") => enabledTools' = enabledTools

C24_EnabledSubsetOfCatalog == []C24_State /\ [][C24_Step]_vars

\* one tool was picked, and a turn later it is still the enabled set
C24_Witness ==
    /\ mode = "tool"
    /\ pc = "text"
    /\ enabledTools = {"code_execution"}
    /\ Len(conversations[conversation].messages) = 2

(* C26: in every conversation the stored roles alternate, starting with
   user: the messages at odd positions are user messages and those at even
   positions assistant messages, so every user message is followed by one
   assistant message before the next user message is stored. *)
C26_RolesAlternate ==
    \A c \in 1..Len(conversations) :
        \A i \in 1..Len(conversations[c].messages) :
            conversations[c].messages[i].role = (IF i % 2 = 1 THEN "user" ELSE "assistant")

(* C23: a wakeup invocation whose credential resolves to no user (no file,
   no access token, or a token of no active session) never reaches mode
   selection and starts no session function; it ends with a message for the
   user and a failure outcome of the process. *)
C23_UnresolvedWakeUpIsFatal ==
    (pc # "idle" /\ Unauthenticated(tokenFile)) =>
        /\ pc \in {"findFirst", "terminated"}
        /\ mode = ""
        /\ user = ""
        /\ conversation = 0
        /\ created = 0
        /\ SessionEnded =>
              /\ shown \in {"You must be logged in to wake up the AI Agent.",
                            "Invalid token. Please log in again.", "uncaught"}
              /\ outcome = "exit1"

\* C25: when a tool-mode session resumes a conversation that has messages,
\* the previous user and assistant messages are rendered in their stored
\* order, and all of them before the help box and the first prompt
IsMessageBox(b) == b.box \in {"user", "assistant"}
IsHelpBox(b) == b.box = "helpBox"
BoxesOf(stored) == [i \in 1..Len(stored) |-> Box(stored[i].role, stored[i].id)]

\* the message boxes printed before the help box
RenderedBeforeHelpBox ==
    LET first == CHOOSE i \in 1..Len(rendered) : IsHelpBox(rendered[i])
    IN  SelectSeq(SubSeq(rendered, 1, first - 1), IsMessageBox)

C25_RenderedInStoredOrder ==
    (displayPc = "prompt" /\ Len(previousMessages) > 0) =>
        RenderedBeforeHelpBox = BoxesOf(previousMessages)
=============================================================================
